---- MODULE Spec2Model ----
\* State-machine model of the video-share bot (src/unnamed/part_000): the per-user
\* session flags, the content sampler (sendVideoBatch), the broadcast fan-out
\* (executeBroadcast) and its retraction, the payment decisions, the scheduled
\* jobs (receipt sweep, inactive-user cleanup, quota reset) and the stored user /
\* media / channel / broadcast records.
\*
\* Modelling conventions
\*   - JavaScript null is the string "null"; the session field waitingForChannelAdd,
\*     which the default session does not define, starts as "undefined".
\*   - The chat transport and its failures are inputs: every transport call whose
\*     outcome changes what the handler does next is drawn from BOOLEAN.
\*   - Storage calls (find, updateOne, insertMany, ...) succeed.
\*   - Inbound events are handled one at a time; a batch request and a broadcast
\*     execution are split at their awaited transport calls.
\*   - All chats are private chats (ctx.chat.type === 'private').
\*   - Time is counted in minutes; a day lasts DayMinutes of them. A scheduled job
\*     is split at its awaited storage calls, and its runs interleave with the
\*     steps of a batch request.
EXTENDS Integers, Sequences, FiniteSets, TLC

\* ---------------------------------------------------------------- bounds
MaxUsers == 2
MaxVideos == 4
MaxChannels == 1
MaxMsgId == 6
MaxRuns == 1
MaxTime == 2
MaxSweeps == 2

\* ---------------------------------------------------------------- configuration
VIDEO_BATCH_SIZE == 2
MESSAGE_DELETE_MINUTES == 1
DAILY_VIDEO_LIMIT == 4
\* Minutes from one midnight to the next (cron "0 0 * * *").
DayMinutes == 2

Min(a, b) == IF a < b THEN a ELSE b

UserIds == 1..MaxUsers
admins == {1}
FileIds == 1..MaxVideos
ChannelIds == 1..MaxChannels
\* The users that send events: the operator and one user who is not an operator
\* (the other stored users only receive broadcasts).
Actors == admins \cup {2}

VARIABLES
    session,     \* per-user session object (telegraf session middleware)
    users,       \* User collection, by userId
    videos,      \* Video collection: the set of stored fileIds
    channels,    \* Channel collection: the set of stored channelIds
    CHANNEL_IDS, \* the in-memory list of channelIds
    broadcasts,  \* Broadcast collection, in insertion order
    batch,       \* the sendVideoBatch call in flight, or the last one that ended
    hist,        \* per user: the media delivered since the user's last recycle
    bc,          \* the executeBroadcast call in flight, or the last one that ended
    msgSeq,      \* last message_id the transport handed out
    now,         \* wall clock, in minutes
    jobs,        \* scheduler: the sweep callbacks in flight, the due quota reset
    obs,         \* observation of what the scheduled jobs and the batches did
    last         \* observation of the last inbound event and of what it caused

vars == <<session, users, videos, channels, CHANNEL_IDS, broadcasts, batch, hist, bc,
          msgSeq, now, jobs, obs, last>>

\* ---------------------------------------------------------------- helpers
isAdmin_Everyone(userId) == TRUE

isAdmin(userId) == userId \in admins

Range(s) == {s[i] : i \in 1..Len(s)}

\* Sequences over S without repetition, of length exactly n.
InjSeqs(S, n) == {s \in [1..n -> S] : \A i, j \in 1..n : i # j => s[i] # s[j]}

defaultSession ==
    [currentMenu |-> "null",
     waitingForBroadcast |-> "null",
     waitingForUpload |-> FALSE,
     broadcastData |-> "null",
     waitingForPaymentProof |-> "null",
     waitingForChannelAdd |-> "undefined"]

\* A userId with no stored document.
NoUser ==
    [exists |-> FALSE, isBanned |-> FALSE, isPremium |-> FALSE,
     hasPurchaseGroupAccess |-> FALSE, dailyCount |-> 0,
     viewedVideos |-> {}, sentMessages |-> {}, lastReset |-> 0]

\* The document an upsert creates (schema defaults).
NewUser == [NoUser EXCEPT !.exists = TRUE]

clearMenuState(s) ==
    [s EXCEPT !.currentMenu = "null",
              !.waitingForBroadcast = "null",
              !.waitingForUpload = FALSE,
              !.waitingForPaymentProof = "null"]

\* The paths userSchema declares (userId is the key of users).
userSchema ==
    {"dailyCount", "lastReset", "isPremium", "hasPurchaseGroupAccess",
     "viewedVideos", "sentMessages"}

\* User.updateOne(filter, update) on the document doc: the schema is strict, so
\* the update is cast to the declared paths and every other path of it is dropped.
updateOne(doc, update) ==
    [f \in DOMAIN doc |->
        IF f \in DOMAIN update /\ f \in userSchema THEN update[f] ELSE doc[f]]

\* The ban pre-check's condition: user?.isBanned of the document found. isBanned
\* is no declared path: it reads as the value NoUser gives it.
IsBannedUser(u) == users[u].exists /\ users[u].isBanned

\* The operator's last VERIFY or BAN that wrote the record of u was a BAN.
BanDecided(u) == u \in obs.banned

NoBatch ==
    [phase |-> "idle", user |-> 0, wasBanned |-> FALSE, viewedAtRequest |-> {},
     poolAtRequest |-> {}, countAtRequest |-> 0, available |-> {}, reset |-> FALSE,
     selected |-> <<>>, sent |-> <<>>, repeated |-> FALSE, repeatedDone |-> FALSE,
     notice |-> "none", countBefore |-> 0, countAfter |-> 0]

\* all: delivered by any batch request since the last recycle; done: delivered by
\* the requests that completed since then.
NoHist == [all |-> {}, done |-> {}]

\* target: users, channels or all. content: what executeBroadcast was handed (see
\* BroadcastContent). targets: the recipients resolved so far, as chat ids, in loop
\* order. attempted: the recipients whose loop pass ran, in order. delivered: the
\* chat ids the transport accepted a send for. messages: broadcastMessages.
\* run: how many executions there were (bounded by MaxRuns).
NoBroadcast ==
    [phase |-> "idle", target |-> "none", content |-> "none", stage |-> "none",
     targets |-> <<>>, attempted |-> <<>>, delivered |-> {},
     success |-> 0, failed |-> 0, messages |-> <<>>, storedBefore |-> 0,
     progressEdit |-> "none", report |-> "none", run |-> 0, by |-> 0, inserts |-> 0]

\* No handler is suspended in the middle of a batch or of a broadcast.
Idle == batch.phase \notin {"sending", "scheduled"} /\ bc.phase # "running"

\* One run of the sweep callback. at: the time it took when it fired. seen: the
\* sentMessages of every user when its User.find ran. found: the users the find
\* returned that are still to be processed. probes: the users cleanInactiveUsers
\* has still to probe.
NoSweep ==
    [phase |-> "idle", at |-> 0, seen |-> [u \in UserIds |-> {}],
     found |-> <<>>, probes |-> <<>>]

\* sweeps: the runs of the sweep callback, by the minute they fired at.
NoJobs == [sweeps |-> [t \in 1..MaxTime |-> NoSweep], quotaDue |-> FALSE]

\* Message ids. failed: a sweep's transport delete of it was rejected, and a run
\* in flight has it in its toDelete or it is still stored. retried: attempted
\* again after a rejected attempt.
\* pulled: removed from sentMessages by a $pull. unattempted: pulled by a tick
\* that had not attempted it. early: pulled by a tick whose start time was before
\* its deleteAt. dropped: discarded with the user record the cleanup deleted.
\* lostLater: had a deleteAt after the start of a tick and was missing when
\* that tick completed. doneAt: latest start time of a completed tick.
\* peak: per userId, the highest dailyCount stored since the last quota reset.
\* resets: quota resets so far; resetFrom: the users whose dailyCount the last
\* one found above 0. cut: the cleanup deleted the record of the user of the
\* batch request in batch since that request began. banned: the users whose
\* record a BAN wrote with no VERIFY writing it since. granted: per userId, the
\* types of the VERIFY decisions that wrote the record since the last BAN did.
\* copies: per fileId, the Video documents
\* created with it (none is ever deleted).
NoObs ==
    [failed |-> {}, retried |-> {}, pulled |-> {},
     unattempted |-> {}, early |-> {}, dropped |-> {}, lostLater |-> {},
     doneAt |-> 0, peak |-> [u \in UserIds |-> 0], resets |-> 0, resetFrom |-> {},
     cut |-> FALSE, banned |-> {}, granted |-> [u \in UserIds |-> {}],
     copies |-> [f \in FileIds |-> 0]]

\* The observations at start-up over a pool that holds one document per fileId.
ObsOver(pool) == [NoObs EXCEPT !.copies = [f \in FileIds |-> IF f \in pool THEN 1 ELSE 0]]

\* What the event ev of user u caused. wasBanned: the operator had banned u when
\* the event arrived; subject is the user a payment decision is about (0: none),
\* verifyType the type a VERIFY names ("none" for every other event).
ObserveDecision(u, ev, subject, ty, effects) ==
    last' = [ev |-> ev, user |-> u, subject |-> subject, verifyType |-> ty,
             wasBanned |-> BanDecided(u), effects |-> effects]

ObserveOn(u, ev, subject, effects) == ObserveDecision(u, ev, subject, "none", effects)

Observe(u, ev, effects) == ObserveOn(u, ev, 0, effects)

dbVars == <<users, videos, channels, broadcasts>>

timeVars == <<now, jobs, obs>>

\* ---------------------------------------------------------------- session handlers
\* A handler that touches only the session of u.
SessionOnly(u, ev, s, effects) ==
    /\ Idle
    /\ session' = [session EXCEPT ![u] = s]
    /\ Observe(u, ev, effects)
    /\ UNCHANGED <<dbVars, CHANNEL_IDS, batch, hist, bc, msgSeq, timeVars>>

showMainMenu(s) == [clearMenuState(s) EXCEPT !.currentMenu = "main"]

showAdminMenu(s) == [clearMenuState(s) EXCEPT !.currentMenu = "admin"]

\* bot.start: upsert the user, then the main menu.
Start(u) ==
    /\ Idle
    /\ users' = [users EXCEPT ![u] = IF users[u].exists THEN users[u] ELSE NewUser]
    /\ session' = [session EXCEPT ![u] = showMainMenu(session[u])]
    /\ Observe(u, "start", {"menu"} \cup (IF users[u].exists THEN {} ELSE {"user_created"}))
    /\ UNCHANGED <<videos, channels, CHANNEL_IDS, broadcasts, batch, hist, bc, msgSeq, timeVars>>

\* bot.command("admin")
AdminCommand(u) ==
    IF isAdmin(u)
    THEN SessionOnly(u, "admin", showAdminMenu(session[u]), {"menu"})
    ELSE SessionOnly(u, "admin", session[u], {})

\* bot.action("MAIN_MENU")
MainMenu(u) == SessionOnly(u, "MAIN_MENU", showMainMenu(session[u]), {"menu"})

sendUPIDetails(s, paymentType) ==
    [clearMenuState(s) EXCEPT !.waitingForPaymentProof = paymentType,
                              !.currentMenu = "payment"]

\* bot.action("SUBSCRIBE")
Subscribe(u) ==
    SessionOnly(u, "SUBSCRIBE", sendUPIDetails(session[u], "premium"), {"menu", "armed"})

\* bot.action("PURCHASE_GROUP")
PurchaseGroup(u) ==
    SessionOnly(u, "PURCHASE_GROUP",
                [clearMenuState(session[u]) EXCEPT !.currentMenu = "purchase_group"],
                {"menu"})

\* bot.action("PURCHASE_GROUP_PAY")
PurchaseGroupPay(u) ==
    SessionOnly(u, "PURCHASE_GROUP_PAY", sendUPIDetails(session[u], "group"),
                {"menu", "armed"})

\* bot.action("DEMO")
Demo(u) ==
    SessionOnly(u, "DEMO", [clearMenuState(session[u]) EXCEPT !.currentMenu = "demo"],
                {"menu"})

\* bot.action("COPY_UPI")
CopyUpi(u) == SessionOnly(u, "COPY_UPI", session[u], {"reply"})

\* bot.on("photo"): the payment proof handler. It ends the middleware chain for
\* every photo, an operator's included. forwarded: sendPhoto to the operator
\* group succeeded; confirmed: the confirmation reply to the user succeeded.
Photo_ClearsOnFailure(u) ==
    \E forwarded, confirmed \in BOOLEAN :
        IF isAdmin(u) \/ session[u].waitingForPaymentProof = "null"
        THEN SessionOnly(u, "photo", session[u], {})
        ELSE SessionOnly(u, "photo",
                         [session[u] EXCEPT !.waitingForPaymentProof = "null"],
                         (IF forwarded THEN {"proof_forwarded"} ELSE {}) \cup {"reply"})

\* The chats a photo can arrive in; the handler tests ctx.chat.type.
ChatTypes == {"private", "group"}

PhotoIn(u, chatType) ==
    \E forwarded, confirmed \in BOOLEAN :
        IF chatType # "private" \/ isAdmin(u) \/ session[u].waitingForPaymentProof = "null"
        THEN SessionOnly(u, "photo", session[u], {})
        ELSE IF forwarded /\ confirmed
        THEN SessionOnly(u, "photo",
                         [session[u] EXCEPT !.waitingForPaymentProof = "null"],
                         {"proof_forwarded", "reply"})
        ELSE SessionOnly(u, "photo", session[u],
                         (IF forwarded THEN {"proof_forwarded"} ELSE {}) \cup {"reply"})

Photo(u) == \E chatType \in ChatTypes : PhotoIn(u, chatType)

\* ---------------------------------------------------------------- payment decisions
\* The transport calls of a decision handler: edit of the operator-facing message,
\* the fallback reply, the notification of the subject.
\* A throw of the edit without fallback, of the fallback reply or of the
\* notification reaches the handler's outer catch, which answers the failure.
DecisionEffects(editOk, replyOk, notifyOk, hasFallback) ==
    LET shown == editOk \/ (hasFallback /\ replyOk) IN
    (IF editOk THEN {"edited"} ELSE {"edit_failed"})
    \cup (IF ~editOk /\ hasFallback
          THEN (IF replyOk THEN {"fallback"} ELSE {"fallback_failed"}) ELSE {})
    \cup (IF shown THEN {"notify_attempted"} ELSE {})
    \cup (IF shown /\ notifyOk THEN {"notified", "answered_ok"} ELSE {"answered_failed"})

\* ty: the type a VERIFY names ("none" for REJECT and BAN).
Decision(a, ev, ty, t, newUser, effects) ==
    /\ Idle
    /\ users' = [users EXCEPT ![t] = newUser]
    /\ ObserveDecision(a, ev, t, ty, effects)
    /\ obs' = IF "db_write" \notin effects THEN obs
              ELSE IF ev = "BAN"
              THEN [obs EXCEPT !.banned = @ \cup {t}, !.granted[t] = {}]
              ELSE [obs EXCEPT !.banned = @ \ {t}, !.granted[t] = @ \cup {ty}]
    /\ UNCHANGED <<session, videos, channels, CHANNEL_IDS, broadcasts, batch, hist, bc, msgSeq, now, jobs>>

\* bot.action(/^VERIFY_(\d+)_(GROUP|PREMIUM)$/)
Verify_GrantsBoth(a, t, verifyType) ==
    \E editOk, replyOk, notifyOk \in BOOLEAN :
        IF ~isAdmin(a) THEN Decision(a, "VERIFY", verifyType, t, users[t], {"admin_only"})
        ELSE IF ~users[t].exists
        THEN Decision(a, "VERIFY", verifyType, t, users[t], {"not_found"})
        ELSE Decision(a, "VERIFY", verifyType, t,
                 updateOne(users[t],
                     [isBanned |-> FALSE, hasPurchaseGroupAccess |-> TRUE,
                      isPremium |-> TRUE]),
                 {"db_write"} \cup DecisionEffects(editOk, replyOk, notifyOk, TRUE))

Verify(a, t, verifyType) ==
    \E editOk, replyOk, notifyOk \in BOOLEAN :
        IF ~isAdmin(a) THEN Decision(a, "VERIFY", verifyType, t, users[t], {"admin_only"})
        ELSE IF ~users[t].exists
        THEN Decision(a, "VERIFY", verifyType, t, users[t], {"not_found"})
        ELSE Decision(a, "VERIFY", verifyType, t,
                 updateOne(users[t],
                     IF verifyType = "group"
                     THEN [isBanned |-> FALSE, hasPurchaseGroupAccess |-> TRUE]
                     ELSE [isBanned |-> FALSE, isPremium |-> TRUE]),
                 {"db_write"} \cup DecisionEffects(editOk, replyOk, notifyOk, TRUE))

\* bot.action(/^REJECT_(\d+)$/)
Reject_NoLookup(a, t) ==
    \E editOk, replyOk, notifyOk \in BOOLEAN :
        IF ~isAdmin(a) THEN Decision(a, "REJECT", "none", t, users[t], {"admin_only"})
        ELSE Decision(a, "REJECT", "none", t, users[t],
                      DecisionEffects(editOk, replyOk, notifyOk, TRUE))

Reject(a, t) ==
    \E editOk, replyOk, notifyOk \in BOOLEAN :
        IF ~isAdmin(a) THEN Decision(a, "REJECT", "none", t, users[t], {"admin_only"})
        ELSE IF ~users[t].exists THEN Decision(a, "REJECT", "none", t, users[t], {"not_found"})
        ELSE Decision(a, "REJECT", "none", t, users[t],
                      DecisionEffects(editOk, replyOk, notifyOk, TRUE))

\* bot.action(/^BAN_(\d+)$/): the edit has no fallback.
Ban_KeepsEntitlements(a, t) ==
    \E editOk, notifyOk \in BOOLEAN :
        IF ~isAdmin(a) THEN Decision(a, "BAN", "none", t, users[t], {"admin_only"})
        ELSE IF ~users[t].exists THEN Decision(a, "BAN", "none", t, users[t], {"not_found"})
        ELSE Decision(a, "BAN", "none", t, updateOne(users[t], [isBanned |-> TRUE]),
                 {"db_write"} \cup DecisionEffects(editOk, FALSE, notifyOk, FALSE))

Ban(a, t) ==
    \E editOk, notifyOk \in BOOLEAN :
        IF ~isAdmin(a) THEN Decision(a, "BAN", "none", t, users[t], {"admin_only"})
        ELSE IF ~users[t].exists THEN Decision(a, "BAN", "none", t, users[t], {"not_found"})
        ELSE Decision(a, "BAN", "none", t,
                 updateOne(users[t],
                     [isBanned |-> TRUE, isPremium |-> FALSE,
                      hasPurchaseGroupAccess |-> FALSE]),
                 {"db_write"} \cup DecisionEffects(editOk, FALSE, notifyOk, FALSE))

\* ---------------------------------------------------------------- ban pre-check
\* bot.use(ban check): registered after the handlers above, so it is reached only
\* by the events none of them ended the chain for.
BanNotice(u, ev) == SessionOnly(u, ev, session[u], {"ban_notice"})

AfterBanCheck(u, ev, Handler) ==
    IF IsBannedUser(u) THEN BanNotice(u, ev) ELSE Handler

\* An operator-only session transition registered after the ban pre-check.
AdminTransition_Unguarded(u, ev, s, effects) ==
    AfterBanCheck(u, ev, SessionOnly(u, ev, s, effects))

AdminTransition(u, ev, s, effects) ==
    AfterBanCheck(u, ev,
        IF isAdmin(u) THEN SessionOnly(u, ev, s, effects)
        ELSE SessionOnly(u, ev, session[u], {}))

\* bot.action("ADMIN_BROADCAST_TEXT")
AdminBroadcastText(u) ==
    AdminTransition(u, "ADMIN_BROADCAST_TEXT",
        [clearMenuState(session[u]) EXCEPT !.waitingForBroadcast = "text",
                                           !.currentMenu = "broadcast"],
        {"menu", "armed"})

\* bot.on("text"): the preview reply comes before the draft is stored.
Text(u) ==
    \E replyOk \in BOOLEAN :
        AfterBanCheck(u, "text",
            IF isAdmin(u) /\ session[u].waitingForBroadcast = "text" /\ replyOk
            THEN SessionOnly(u, "text",
                     [session[u] EXCEPT !.broadcastData = "text",
                                        !.waitingForBroadcast = "null"],
                     {"reply", "draft"})
            ELSE SessionOnly(u, "text", session[u], {}))

\* bot.action("ADMIN_BROADCAST_MEDIA")
AdminBroadcastMedia(u) ==
    AdminTransition(u, "ADMIN_BROADCAST_MEDIA",
        [clearMenuState(session[u]) EXCEPT !.waitingForBroadcast = "media",
                                           !.currentMenu = "broadcast"],
        {"menu", "armed"})

\* bot.action("ADMIN_UPLOAD_MEDIA")
AdminUploadMedia(u) ==
    AdminTransition(u, "ADMIN_UPLOAD_MEDIA",
        [clearMenuState(session[u]) EXCEPT !.waitingForUpload = TRUE,
                                           !.currentMenu = "upload"],
        {"menu", "armed"})

\* Video.findOne({ fileId })
exists_Never(pool, f) == FALSE

exists(pool, f) == f \in pool

\* bot.on(["photo", "video", "document"]) for a video or a document with fileId f
\* (a photo never reaches it: bot.on("photo") ends the chain). replyOk: the notice
\* after the upload; retryOk: the error notice sent when that reply failed.
Media(u, f) ==
    \E replyOk, retryOk \in BOOLEAN :
        AfterBanCheck(u, "media",
            IF ~isAdmin(u) THEN SessionOnly(u, "media", session[u], {})
            ELSE IF session[u].waitingForUpload
            THEN /\ Idle
                 /\ IF exists(videos, f)
                    THEN UNCHANGED <<videos, obs>>
                    ELSE /\ videos' = videos \cup {f}
                         /\ obs' = [obs EXCEPT !.copies[f] = @ + 1]
                 /\ session' = [session EXCEPT ![u].waitingForUpload =
                                    IF replyOk \/ retryOk THEN FALSE ELSE TRUE]
                 /\ Observe(u, "media",
                        IF exists(videos, f) THEN {"duplicate"} ELSE {"uploaded"})
                 /\ UNCHANGED <<users, channels, CHANNEL_IDS, broadcasts, batch, hist, bc,
                                msgSeq, now, jobs>>
            ELSE IF session[u].waitingForBroadcast = "media" /\ replyOk
            THEN SessionOnly(u, "media",
                     [session[u] EXCEPT !.broadcastData = "media",
                                        !.waitingForBroadcast = "null"],
                     {"reply", "draft"})
            ELSE SessionOnly(u, "media", session[u], {}))

\* bot.action("ADMIN_MANAGE_CHANNELS")
AdminManageChannels(u) ==
    AdminTransition(u, "ADMIN_MANAGE_CHANNELS",
        [clearMenuState(session[u]) EXCEPT !.currentMenu = "manage_channels"],
        {"menu"})

\* bot.action("ADD_CHANNEL"): sets its flag and menu without clearMenuState.
AddChannel(u) ==
    AdminTransition(u, "ADD_CHANNEL",
        [session[u] EXCEPT !.waitingForChannelAdd = "true",
                           !.currentMenu = "add_channel"],
        {"menu", "armed"})

\* bot.on('message'): reached by the messages no earlier handler ended the chain
\* for (neither text nor photo, video or document). Its first statement uses the
\* identifier debug, which this file does not define, so the body throws and only
\* the finally block takes effect.
Message(u) ==
    AfterBanCheck(u, "message",
        SessionOnly(u, "message",
            [session[u] EXCEPT !.waitingForChannelAdd = "false"], {"error_notice"}))

\* What a message carries for the channel handler. text: none, or a text that
\* matches /^(@\w+|-\d+)$/ or does not. forward: forward_from_chat is a channel.
\* channel: the channel the forward or the id names. chat: what getChat resolves
\* the id to. member: the bot's status getChatMember reports. createOk: whether
\* Channel.create succeeds.
ChannelInputs ==
    [text : {"none", "wellformed", "malformed"}, forward : BOOLEAN,
     channel : ChannelIds, chat : {"channel", "group", "throws"},
     member : {"administrator", "creator", "member", "throws"}, createOk : BOOLEAN]

\* bot.on("text") comes first and ends the chain for every text message; what
\* getChat would resolve is immaterial for the others.
ReachingInputs == {m \in ChannelInputs : m.text = "none" /\ m.chat = "channel"}

\* ['administrator', 'creator'].includes(botMember.status)
botIsAdmin_Any(status) == TRUE

botIsAdmin(status) == status \in {"administrator", "creator"}

\* The handler from the bot-admin check on: membership, Channel.findOne,
\* Channel.create.
registerChannel(m, stored) ==
    IF m.member = "throws" THEN "admin_check_failed"
    ELSE IF ~botIsAdmin(m.member) THEN "not_admin"
    ELSE IF m.channel \in stored THEN "exists"
    ELSE IF ~m.createOk THEN "save_failed"
    ELSE "added"

\* The body of the channel handler for an operator who is awaited to name one.
channelOutcome(m, stored) ==
    IF m.forward THEN registerChannel(m, stored)
    ELSE IF m.text = "none" THEN "ignored"
    ELSE IF m.text = "malformed" THEN "bad_format"
    ELSE IF m.chat = "throws" THEN "lookup_failed"
    ELSE IF m.chat # "channel" THEN "not_channel"
    ELSE registerChannel(m, stored)

\* bot.on('message') in the file that defines debug: the body runs, and the
\* finally block resets the flag on every path.
ChannelMessage(u, m) ==
    AfterBanCheck(u, "message",
        IF session[u].waitingForChannelAdd # "true" \/ ~isAdmin(u)
        THEN SessionOnly(u, "message",
                 [session[u] EXCEPT !.waitingForChannelAdd = "false"], {})
        ELSE LET out == channelOutcome(m, channels) IN
             /\ Idle
             /\ channels' = IF out = "added" THEN channels \cup {m.channel} ELSE channels
             /\ CHANNEL_IDS' = IF out = "added" THEN CHANNEL_IDS \cup {m.channel}
                               ELSE CHANNEL_IDS
             /\ session' = [session EXCEPT ![u].waitingForChannelAdd = "false"]
             /\ ObserveOn(u, "message", m.channel, {out})
             /\ UNCHANGED <<users, videos, broadcasts, batch, hist, bc, msgSeq, timeVars>>)

\* bot.action(/^REMOVE_CHANNEL_(.+)$/)
RemoveChannelId(u, c) ==
    AfterBanCheck(u, "REMOVE_CHANNEL_id",
        IF ~isAdmin(u) THEN SessionOnly(u, "REMOVE_CHANNEL_id", session[u], {})
        ELSE /\ Idle
             /\ channels' = channels \ {c}
             /\ CHANNEL_IDS' = IF c \in channels THEN CHANNEL_IDS \ {c} ELSE CHANNEL_IDS
             /\ session' = [session EXCEPT ![u] = showAdminMenu(session[u])]
             /\ Observe(u, "REMOVE_CHANNEL_id",
                    {"menu"} \cup (IF c \in channels THEN {"removed"} ELSE {"not_found"}))
             /\ UNCHANGED <<users, videos, broadcasts, batch, hist, bc, msgSeq, timeVars>>)

\* bot.action("ADMIN_DELETE_BROADCAST")
AdminDeleteBroadcast(u) ==
    AdminTransition(u, "ADMIN_DELETE_BROADCAST",
        [clearMenuState(session[u]) EXCEPT !.currentMenu = "delete_broadcast"],
        {"menu"})

\* Broadcast.findById(broadcastId): a stored record is identified by the message
\* it recorded.
findById_Any(stored, id) == 1..Len(stored)

findById(stored, id) == {i \in 1..Len(stored) : stored[i].messageId = id}

\* Broadcast.deleteOne({ _id: broadcastId })
deleteOne(stored, id) ==
    LET Other(r) == r.messageId # id IN SelectSeq(stored, Other)

\* bot.action(/^DELETE_BROADCAST_(.+)$/): the transport delete, the storage delete
\* and the success reply share one try block; its catch sends the failure reply.
\* showAdminMenu runs unless the failure reply itself was rejected.
DeleteBroadcast(u, id) ==
    \E deleteOk, replyOk, failReplyOk \in BOOLEAN :
        AfterBanCheck(u, "DELETE_BROADCAST_id",
            IF ~isAdmin(u)
            THEN /\ SessionOnly(u, "DELETE_BROADCAST_id", session[u], {})
            ELSE IF findById(broadcasts, id) = {}
            THEN /\ Idle
                 /\ ObserveOn(u, "DELETE_BROADCAST_id", id, {"not_found"})
                 /\ UNCHANGED <<session, dbVars, CHANNEL_IDS, batch, hist, bc, msgSeq, timeVars>>
            ELSE /\ Idle
                 /\ broadcasts' = IF deleteOk THEN deleteOne(broadcasts, id) ELSE broadcasts
                 /\ session' = IF (deleteOk /\ replyOk) \/ failReplyOk
                                THEN [session EXCEPT ![u] = showAdminMenu(session[u])]
                                ELSE session
                 /\ ObserveOn(u, "DELETE_BROADCAST_id", id,
                        {"delete_requested"}
                        \cup (IF deleteOk THEN {"transport_deleted"} ELSE {"transport_failed"})
                        \cup (IF deleteOk /\ replyOk THEN {"success_notice"} ELSE {})
                        \cup (IF ~(deleteOk /\ replyOk) /\ failReplyOk
                              THEN {"failure_notice"} ELSE {})
                        \cup (IF (deleteOk /\ replyOk) \/ failReplyOk THEN {"menu"} ELSE {}))
                 /\ UNCHANGED <<users, videos, channels, CHANNEL_IDS, batch, hist, bc, msgSeq, timeVars>>)

\* bot.action("ADMIN_CANCEL"): deleteMessage comes between clearMenuState and
\* showAdminMenu; when it fails the admin menu is not entered.
AdminCancel(u) ==
    \E deleteOk \in BOOLEAN :
        AdminTransition(u, "ADMIN_CANCEL",
            IF deleteOk THEN showAdminMenu(session[u]) ELSE clearMenuState(session[u]),
            IF deleteOk THEN {"menu"} ELSE {"cancelled"})

\* bot.action("ADMIN_STATS")
AdminStats(u) ==
    AdminTransition(u, "ADMIN_STATS",
        [clearMenuState(session[u]) EXCEPT !.currentMenu = "stats"], {"menu"})

\* ---------------------------------------------------------------- content sampler
\* Video.find({_id: {$nin: user.viewedVideos}})
availableVideos_NoFilter(pool, viewed) == pool

availableVideos(pool, viewed) == pool \ viewed

\* availableVideos.length < VIDEO_BATCH_SIZE
PoolExhausted_Never(available) == FALSE

PoolExhausted(available) == Cardinality(available) < VIDEO_BATCH_SIZE

\* availableVideos.sort(() => 0.5 - Math.random()).slice(0, VIDEO_BATCH_SIZE):
\* any arrangement of any VIDEO_BATCH_SIZE of them (all of them when fewer).
selectedVideos_AnyFile(available) ==
    InjSeqs(FileIds, Min(VIDEO_BATCH_SIZE, Cardinality(available)))

selectedVideos(available) ==
    InjSeqs(available, Min(VIDEO_BATCH_SIZE, Cardinality(available)))

\* User.updateOne({ $set: { viewedVideos: [] } })
resetViewed_Forgotten(user) == user

resetViewed(user) == [user EXCEPT !.viewedVideos = {}]

\* user.isPremium ? Infinity : DAILY_VIDEO_LIMIT, compared with user.dailyCount
LimitReached_Never(user) == FALSE

LimitReached(user) == ~user.isPremium /\ user.dailyCount >= DAILY_VIDEO_LIMIT

\* bot.action("GET_VIDEO") up to the first send of sendVideoBatch: the user
\* lookup, the quota check, clearMenuState, the query for unviewed media, the
\* reset of viewedVideos when fewer than a batch remain, and the selection.
GetVideo(u) ==
    /\ Idle
    /\ IF ~users[u].exists \/ LimitReached(users[u])
       THEN /\ Observe(u, "GET_VIDEO",
                   IF users[u].exists THEN {"limit_notice"} ELSE {"start_first"})
            /\ UNCHANGED <<session, dbVars, CHANNEL_IDS, batch, hist, bc, msgSeq, timeVars>>
       ELSE LET user == users[u]
                unviewed == availableVideos(videos, user.viewedVideos)
                reset == PoolExhausted(unviewed)
                available == IF reset THEN videos ELSE unviewed
            IN \E sel \in selectedVideos(available) :
                /\ msgSeq + Len(sel) <= MaxMsgId
                /\ session' = [session EXCEPT ![u] =
                       [clearMenuState(session[u]) EXCEPT !.currentMenu = "videos"]]
                /\ users' = IF reset THEN [users EXCEPT ![u] = resetViewed(user)] ELSE users
                /\ hist' = IF reset THEN [hist EXCEPT ![u] = NoHist] ELSE hist
                /\ batch' = [NoBatch EXCEPT
                       !.phase = "sending", !.user = u,
                       !.wasBanned = BanDecided(u),
                       !.viewedAtRequest = user.viewedVideos,
                       !.poolAtRequest = videos,
                       !.countAtRequest = user.dailyCount,
                       !.available = available, !.reset = reset, !.selected = sel]
                /\ obs' = [obs EXCEPT !.cut = FALSE]
                /\ Observe(u, "GET_VIDEO", {"menu", "batch"})
                /\ UNCHANGED <<videos, channels, CHANNEL_IDS, broadcasts, bc, msgSeq, now, jobs>>

\* One pass of the send loop: ctx.replyWithVideo(video.fileId). A rejected send
\* throws out of the loop into the catch of sendVideoBatch.
BatchSend_RecordsDelivered ==
    /\ batch.phase = "sending"
    /\ Len(batch.sent) < Len(batch.selected)
    /\ LET v == batch.selected[Len(batch.sent) + 1] IN
       \E ok \in BOOLEAN :
         IF ok
         THEN /\ msgSeq' = msgSeq + 1
              /\ batch' = [batch EXCEPT
                     !.sent = Append(@, msgSeq + 1),
                     !.repeated = @ \/ v \in hist[batch.user].all,
                     !.repeatedDone = @ \/ v \in hist[batch.user].done]
              /\ hist' = [hist EXCEPT ![batch.user].all = @ \cup {v}]
              /\ UNCHANGED users
         ELSE /\ batch' = [batch EXCEPT !.phase = "failed", !.notice = "error"]
              /\ users' = [users EXCEPT ![batch.user] =
                     [@ EXCEPT !.dailyCount = @ + Len(batch.sent),
                               !.viewedVideos = @ \cup
                                   {batch.selected[i] : i \in 1..Len(batch.sent)}]]
              /\ UNCHANGED <<msgSeq, hist>>
    /\ UNCHANGED <<session, videos, channels, broadcasts, CHANNEL_IDS, bc, timeVars, last>>

BatchSend ==
    /\ batch.phase = "sending"
    /\ Len(batch.sent) < Len(batch.selected)
    /\ LET v == batch.selected[Len(batch.sent) + 1] IN
       \E ok \in BOOLEAN :
         IF ok
         THEN /\ msgSeq' = msgSeq + 1
              /\ batch' = [batch EXCEPT
                     !.sent = Append(@, msgSeq + 1),
                     !.repeated = @ \/ v \in hist[batch.user].all,
                     !.repeatedDone = @ \/ v \in hist[batch.user].done]
              /\ hist' = [hist EXCEPT ![batch.user].all = @ \cup {v}]
         ELSE /\ batch' = [batch EXCEPT !.phase = "failed", !.notice = "error"]
              /\ UNCHANGED <<msgSeq, hist>>
    /\ UNCHANGED <<session, dbVars, CHANNEL_IDS, bc, timeVars, last>>

\* scheduleDeletion: $push one receipt per sent message.
scheduleDeletion(user, messageIds, chatId) ==
    [user EXCEPT !.sentMessages = @ \cup
        {[messageId |-> messageIds[i], chatId |-> chatId,
          deleteAt |-> now + MESSAGE_DELETE_MINUTES] : i \in 1..Len(messageIds)}]

\* User.updateOne: $inc dailyCount, $addToSet viewedVideos.
recordBatch_SetCount(user, selected) ==
    [user EXCEPT !.dailyCount = VIDEO_BATCH_SIZE,
                 !.viewedVideos = @ \cup Range(selected)]

recordBatch(user, selected) ==
    [user EXCEPT !.dailyCount = @ + VIDEO_BATCH_SIZE,
                 !.viewedVideos = @ \cup Range(selected)]

\* sendVideoBatch once every selected item was sent: scheduleDeletion pushes the
\* receipts (an update of a user without a stored record changes nothing).
BatchSchedule ==
    /\ batch.phase = "sending"
    /\ Len(batch.sent) = Len(batch.selected)
    /\ LET u == batch.user IN
       users' = IF users[u].exists
                THEN [users EXCEPT ![u] = scheduleDeletion(users[u], batch.sent, u)]
                ELSE users
    /\ batch' = [batch EXCEPT !.phase = "scheduled"]
    /\ UNCHANGED <<session, videos, channels, CHANNEL_IDS, broadcasts, hist, bc, msgSeq, timeVars, last>>

\* The rest of sendVideoBatch: the quota and viewed-set update, and the closing
\* reply (the first batch of the day gets the "more videos" keyboard, a later one
\* the main menu).
BatchFinish ==
    /\ batch.phase = "scheduled"
    /\ LET u == batch.user IN
       /\ users' = IF users[u].exists
                   THEN [users EXCEPT ![u] = recordBatch(users[u], batch.selected)]
                   ELSE users
       /\ obs' = [obs EXCEPT !.peak[u] =
                     IF users'[u].dailyCount > @ THEN users'[u].dailyCount ELSE @]
       /\ hist' = [hist EXCEPT ![u].done = @ \cup Range(batch.selected)]
       /\ session' = IF batch.countAtRequest = 0 THEN session
                     ELSE [session EXCEPT ![u] = showMainMenu(session[u])]
       /\ batch' = [batch EXCEPT !.phase = "done",
                       !.countBefore = users[u].dailyCount,
                       !.countAfter = users'[u].dailyCount,
                       !.notice = IF batch.countAtRequest = 0 THEN "enjoy" ELSE "main_menu"]
    /\ UNCHANGED <<videos, channels, CHANNEL_IDS, broadcasts, bc, msgSeq, now, jobs, last>>

\* ---------------------------------------------------------------- broadcast engine
\* Chat ids: a user's private chat has the user's id, a channel a negative id.
userChat(u) == u

channelChat(c) == 0 - c

\* Any enumeration order of a finite set of integers is fixed here as ascending.
RECURSIVE Ascending(_)
Ascending(S) ==
    IF S = {} THEN <<>>
    ELSE LET m == CHOOSE x \in S : \A y \in S : x <= y
         IN <<m>> \o Ascending(S \ {m})

\* User.find({}) as the chat ids of the stored users.
allUsers == Ascending({userChat(u) : u \in {x \in UserIds : users[x].exists}})

\* Channel.find() as chat ids.
allChannels == [i \in 1..Cardinality(channels) |->
                   channelChat(Ascending(channels)[i])]

\* The content argument the confirm handlers build from session.broadcastData.
\* kind "TEXT" passes { text: broadcastData.text }, kind "MEDIA" passes
\* broadcastData itself. "untyped" is an object with neither text nor type (a
\* media draft confirmed through a text button); "null" is no draft, passed on by
\* a media button. A text button without a draft throws before executeBroadcast.
BroadcastContent_AnyDraft(kind, draft) == IF kind = "TEXT" THEN "text" ELSE "media"

BroadcastContent(kind, draft) ==
    IF kind = "TEXT"
    THEN (IF draft = "text" THEN "text" ELSE IF draft = "media" THEN "untyped" ELSE "throws")
    ELSE draft

\* Whether a loop pass reaches a transport send for this content.
Sendable(content) == content \in {"text", "media"}

\* bot.action("CONFIRM_BROADCAST_<kind>_<target>") up to the first loop pass of
\* executeBroadcast: the progress edit and, for users and all, User.find({}).
\* The handlers are registered after the ban pre-check and do not test isAdmin.
ConfirmBroadcast(u, kind, target) ==
    \E editOk \in BOOLEAN :
        AfterBanCheck(u, "CONFIRM_BROADCAST",
            LET content == BroadcastContent(kind, session[u].broadcastData) IN
            IF content = "throws"
            THEN SessionOnly(u, "CONFIRM_BROADCAST", session[u], {"error_notice"})
            ELSE /\ Idle
                 /\ bc.run < MaxRuns
                 /\ bc' = IF editOk
                          THEN [NoBroadcast EXCEPT
                                   !.run = bc.run + 1, !.by = u,
                                   !.phase = "running", !.target = target,
                                   !.content = content, !.progressEdit = "ok",
                                   !.storedBefore = Len(broadcasts),
                                   !.stage = IF target = "channels" THEN "channels"
                                             ELSE "users",
                                   !.targets = IF target = "channels" THEN allChannels
                                               ELSE allUsers]
                          ELSE [NoBroadcast EXCEPT
                                   !.run = bc.run + 1, !.by = u,
                                   !.phase = "ended", !.target = target,
                                   !.content = content, !.progressEdit = "failed",
                                   !.storedBefore = Len(broadcasts),
                                   !.report = "error"]
                 /\ Observe(u, "CONFIRM_BROADCAST", {"broadcast"})
                 /\ UNCHANGED <<session, dbVars, CHANNEL_IDS, batch, hist, msgSeq, timeVars>>)

\* catch of a loop pass: failed++ and on to the next recipient.
countFailure_Uncounted(b, chat) == [b EXCEPT !.attempted = Append(@, chat)]

countFailure_Abort(b, chat) ==
    [b EXCEPT !.attempted = Append(@, chat), !.failed = @ + 1,
              !.phase = "ended", !.report = "error"]

countFailure(b, chat) == [b EXCEPT !.attempted = Append(@, chat), !.failed = @ + 1]

\* if (broadcastMessages.length > 0) await Broadcast.insertMany(broadcastMessages)
insertMany_DropsLast(stored, messages) ==
    IF Len(messages) > 0 THEN stored \o SubSeq(messages, 1, Len(messages) - 1)
    ELSE stored

insertMany(stored, messages) ==
    IF Len(messages) > 0 THEN stored \o messages ELSE stored

\* The recipients executeBroadcast resolves for a target, in loop order.
resolvedTargets(target) ==
    (IF target \in {"users", "all"} THEN allUsers ELSE <<>>)
    \o (IF target \in {"channels", "all"} THEN allChannels ELSE <<>>)

\* One pass of a recipient loop: the send for the next recipient, then either the
\* push onto broadcastMessages and success++, or the catch and failed++.
BroadcastSend_StoresEach ==
    /\ bc.phase = "running"
    /\ Len(bc.attempted) < Len(bc.targets)
    /\ LET chat == bc.targets[Len(bc.attempted) + 1]
           record == [messageId |-> msgSeq + 1, chatId |-> chat, content |-> bc.content,
                      targetType |-> IF bc.stage = "users" THEN "user" ELSE "channel"]
       IN \E ok \in BOOLEAN :
            IF ok /\ Sendable(bc.content)
            THEN /\ msgSeq' = msgSeq + 1
                 /\ broadcasts' = Append(broadcasts, record)
                 /\ bc' = [bc EXCEPT !.attempted = Append(@, chat),
                                     !.delivered = @ \cup {chat},
                                     !.inserts = @ + 1,
                                     !.success = @ + 1]
            ELSE /\ bc' = countFailure(bc, chat)
                 /\ UNCHANGED <<msgSeq, broadcasts>>
    /\ UNCHANGED <<session, users, videos, channels, CHANNEL_IDS, batch, hist, timeVars, last>>

BroadcastSend ==
    /\ bc.phase = "running"
    /\ Len(bc.attempted) < Len(bc.targets)
    /\ LET chat == bc.targets[Len(bc.attempted) + 1] IN
       \E ok \in BOOLEAN :
         IF ok /\ Sendable(bc.content)
         THEN /\ msgSeq' = msgSeq + 1
              /\ bc' = [bc EXCEPT
                     !.attempted = Append(@, chat),
                     !.delivered = @ \cup {chat},
                     !.messages = Append(@, [messageId |-> msgSeq + 1, chatId |-> chat,
                                             content |-> bc.content,
                                             targetType |-> IF bc.stage = "users"
                                                            THEN "user" ELSE "channel"]),
                     !.success = @ + 1]
         ELSE /\ bc' = countFailure(bc, chat)
              /\ UNCHANGED msgSeq
    /\ UNCHANGED <<session, dbVars, CHANNEL_IDS, batch, hist, timeVars, last>>

\* After the user loop of target all: Channel.find() and the channel loop.
BroadcastChannels ==
    /\ bc.phase = "running"
    /\ bc.stage = "users" /\ bc.target = "all"
    /\ Len(bc.attempted) = Len(bc.targets)
    /\ bc' = [bc EXCEPT !.stage = "channels", !.targets = @ \o allChannels]
    /\ UNCHANGED <<session, dbVars, CHANNEL_IDS, batch, hist, msgSeq, timeVars, last>>

\* After the last loop: Broadcast.insertMany when anything was pushed, then the
\* edit that reports the counts; a failed edit ends in the outer catch.
BroadcastStore ==
    /\ bc.phase = "running"
    /\ bc.stage = "channels" \/ bc.target = "users"
    /\ Len(bc.attempted) = Len(bc.targets)
    /\ broadcasts' = insertMany(broadcasts, bc.messages)
    /\ \E editOk \in BOOLEAN :
         bc' = [bc EXCEPT !.phase = "ended",
                   !.inserts = IF Len(bc.messages) > 0 THEN @ + 1 ELSE @,
                   !.report = IF editOk THEN "counts" ELSE "error"]
    /\ UNCHANGED <<session, users, videos, channels, CHANNEL_IDS, batch, hist, msgSeq, timeVars, last>>

\* ---------------------------------------------------------------- scheduled jobs
\* new Date().getHours() === 0 && new Date().getMinutes() === 0
IsMidnight(t) == t % DayMinutes = 0

MessageIds(entries) == {e.messageId : e \in entries}

\* user.sentMessages.filter(m => m.deleteAt <= now)
toDelete_Strict(entries, at) == {e \in entries : e.deleteAt < at}

toDelete(entries, at) == {e \in entries : e.deleteAt <= at}

\* { $pull: { sentMessages: { deleteAt: { $lte: now } } } }
pullExpired_All(user, at) == [user EXCEPT !.sentMessages = {}]

pullExpired(user, at) ==
    [user EXCEPT !.sentMessages = {e \in @ : ~(e.deleteAt <= at)}]

\* The entries a run may still attempt: those stored, and those a run in flight
\* read for a user it has not reached yet.
Pending(docs, j) ==
    UNION {MessageIds(docs[u].sentMessages) : u \in UserIds}
    \cup UNION {UNION {MessageIds(j.sweeps[t].seen[u]) : u \in Range(j.sweeps[t].found)} :
                  t \in 1..MaxTime}

Running == {t \in 1..MaxTime : jobs.sweeps[t].phase # "idle"}

\* The scheduler at the start of a minute: the sweep job fires and takes its
\* time, whether or not an earlier run of it has ended (at most MaxSweeps runs
\* are in flight); at midnight the quota reset job fires too.
Tick ==
    /\ now < MaxTime
    /\ ~jobs.quotaDue
    /\ Cardinality(Running) < MaxSweeps
    /\ now' = now + 1
    /\ jobs' = [jobs EXCEPT
           !.sweeps[now + 1] = [NoSweep EXCEPT !.phase = "started", !.at = now + 1],
           !.quotaDue = IsMidnight(now + 1)]
    /\ UNCHANGED <<session, dbVars, CHANNEL_IDS, batch, hist, bc, msgSeq, obs, last>>

\* User.find({ "sentMessages.deleteAt": { $lte: now } })
SweepFind(k) ==
    LET sw == jobs.sweeps[k]
        expired == {u \in UserIds :
                       users[u].exists /\ toDelete(users[u].sentMessages, sw.at) # {}}
    IN /\ sw.phase = "started"
       /\ jobs' = [jobs EXCEPT !.sweeps[k] =
              [sw EXCEPT !.phase = "sweeping",
                         !.seen = [u \in UserIds |-> users[u].sentMessages],
                         !.found = Ascending(expired)]]
       /\ UNCHANGED <<session, dbVars, CHANNEL_IDS, batch, hist, bc, msgSeq, now, obs, last>>

\* One pass of the user loop: a transport delete for every entry of toDelete
\* (failed: the ones the transport rejected), then the $pull.
SweepUser(k) ==
    LET sw == jobs.sweeps[k] IN
    /\ sw.phase = "sweeping"
    /\ sw.found # <<>>
    /\ LET u == Head(sw.found)
           ids == MessageIds(toDelete(sw.seen[u], sw.at))
           after == pullExpired(users[u], sw.at)
           gone == users[u].sentMessages \ after.sentMessages
       IN \E failed \in SUBSET ids :
            /\ users' = [users EXCEPT ![u] = after]
            /\ jobs' = [jobs EXCEPT !.sweeps[k].found = Tail(@)]
            /\ obs' = [obs EXCEPT
                   !.retried = @ \cup (ids \cap obs.failed),
                   !.failed = (@ \cup failed) \cap Pending(users', jobs'),
                   !.pulled = @ \cup MessageIds(gone),
                   !.unattempted = @ \cup (MessageIds(gone) \ ids),
                   !.early = @ \cup MessageIds({e \in gone : e.deleteAt > sw.at})]
    /\ UNCHANGED <<session, videos, channels, CHANNEL_IDS, broadcasts, batch, hist, bc, msgSeq, now, last>>

\* What the end of a run of the sweep callback leaves behind.
completed(sw, docs) ==
    [obs EXCEPT
        !.doneAt = IF sw.at > @ THEN sw.at ELSE @,
        !.lostLater = @ \cup UNION {MessageIds({e \in sw.seen[u] :
                                         /\ e.deleteAt > sw.at
                                         /\ e \notin docs[u].sentMessages}) : u \in UserIds}]

\* After the user loop: at minute 0 of hour 0 cleanInactiveUsers starts with
\* User.find({}); at any other time the callback returns.
SweepEnd(k) ==
    LET sw == jobs.sweeps[k]
        stored == Ascending({u \in UserIds : users[u].exists})
    IN /\ sw.phase = "sweeping"
       /\ sw.found = <<>>
       /\ IF IsMidnight(now) /\ stored # <<>>
          THEN /\ jobs' = [jobs EXCEPT !.sweeps[k] =
                      [sw EXCEPT !.phase = "cleaning", !.probes = stored]]
               /\ UNCHANGED obs
          ELSE /\ jobs' = [jobs EXCEPT !.sweeps[k] = NoSweep]
               /\ obs' = completed(sw, users)
       /\ UNCHANGED <<session, dbVars, CHANNEL_IDS, batch, hist, bc, msgSeq, now, last>>

\* User.deleteOne({ userId })
deleteUser(docs, u) == [docs EXCEPT ![u] = NoUser]

\* What the probe message of cleanInactiveUsers can come to: it is delivered; the
\* transport rejects it with a description saying the bot was blocked, the
\* account deleted or the chat not found; the transport rejects it with a retry
\* later (flood control); or the request fails below the transport ("network":
\* the error carries no description).
PermanentSignals == {"blocked", "deleted", "chat not found"}

ProbeOutcomes == {"delivered", "retry after", "network"} \cup PermanentSignals

\* error.description.includes('blocked') || ...includes('deleted') ||
\* ...includes('chat not found')
isInactive_AnyError(probe) == probe # "delivered"

isInactive(probe) == probe \in {"blocked", "deleted", "chat not found"}

\* One pass of cleanInactiveUsers whose probe came to the given outcome. An
\* error without description makes the test of the description throw inside the
\* catch block: the loop is abandoned.
probeUser(k, probe) ==
    LET sw == jobs.sweeps[k] IN
    /\ sw.phase = "cleaning"
    /\ LET u == Head(sw.probes)
           remove == probe # "network" /\ isInactive(probe)
           docs == IF remove THEN deleteUser(users, u) ELSE users
           o == IF remove
                THEN [obs EXCEPT !.dropped = @ \cup MessageIds(users[u].sentMessages),
                                 !.cut = @ \/ (batch.phase # "idle" /\ batch.user = u)]
                ELSE obs
       IN /\ users' = docs
          /\ IF Tail(sw.probes) = <<>> \/ probe = "network"
             THEN /\ jobs' = [jobs EXCEPT !.sweeps[k] = NoSweep]
                  /\ obs' = [completed(sw, docs) EXCEPT !.dropped = o.dropped,
                                                        !.cut = o.cut]
             ELSE /\ jobs' = [jobs EXCEPT !.sweeps[k].probes = Tail(@)]
                  /\ obs' = o
    /\ UNCHANGED <<session, videos, channels, CHANNEL_IDS, broadcasts, batch, hist, bc, msgSeq, now, last>>

CleanInactive(k) == \E probe \in ProbeOutcomes : probeUser(k, probe)

\* User.updateMany({}, { dailyCount: 0, lastReset: new Date() })
resetQuota_KeepsCount(user, t) == [user EXCEPT !.lastReset = t]

resetQuota(user, t) == [user EXCEPT !.dailyCount = 0, !.lastReset = t]

\* schedule.scheduleJob("0 0 * * *")
QuotaReset ==
    /\ jobs.quotaDue
    /\ users' = [u \in UserIds |->
                    IF users[u].exists THEN resetQuota(users[u], now) ELSE users[u]]
    /\ jobs' = [jobs EXCEPT !.quotaDue = FALSE]
    /\ obs' = [obs EXCEPT !.peak = [u \in UserIds |-> 0],
                          !.resets = @ + 1,
                          !.resetFrom = {u \in UserIds : users[u].dailyCount > 0}]
    /\ UNCHANGED <<session, videos, channels, CHANNEL_IDS, broadcasts, batch, hist, bc, msgSeq, now, last>>

\* ---------------------------------------------------------------- specifications
NoEvent ==
    [ev |-> "none", user |-> 0, subject |-> 0, verifyType |-> "none",
     wasBanned |-> FALSE, effects |-> {}]

\* The process right after start-up with empty collections.
Init ==
    /\ session = [u \in UserIds |-> defaultSession]
    /\ users = [u \in UserIds |-> NoUser]
    /\ videos = {}
    /\ channels = {}
    /\ CHANNEL_IDS = channels
    /\ broadcasts = <<>>
    /\ batch = NoBatch
    /\ hist = [u \in UserIds |-> NoHist]
    /\ bc = NoBroadcast
    /\ msgSeq = 0
    /\ now = 0
    /\ jobs = NoJobs
    /\ obs = NoObs
    /\ last = NoEvent

\* The events that leave the stored records alone or touch only the sender's.
MenuEvent(u) ==
    \/ Start(u)
    \/ AdminCommand(u)
    \/ MainMenu(u)
    \/ Subscribe(u)
    \/ PurchaseGroup(u)
    \/ PurchaseGroupPay(u)
    \/ Demo(u)
    \/ CopyUpi(u)
    \/ Photo(u)

AdminEvent(u) ==
    \/ AdminBroadcastText(u)
    \/ Text(u)
    \/ AdminBroadcastMedia(u)
    \/ AdminUploadMedia(u)
    \/ AdminManageChannels(u)
    \/ AddChannel(u)
    \/ Message(u)
    \/ AdminDeleteBroadcast(u)
    \/ AdminCancel(u)
    \/ AdminStats(u)

\* The events of the handlers registered after the ban pre-check, from a sender
\* who is not an operator or is banned.
GuardedEvent(u) ==
    \/ Text(u)
    \/ Media(u, 1)
    \/ Message(u)
    \/ AdminBroadcastText(u)
    \/ AdminUploadMedia(u)
    \/ AddChannel(u)
    \/ AdminCancel(u)

\* Session engine: every inbound event of an operator, over a pool of one file.
Next ==
    \/ \E u \in admins : MenuEvent(u)
    \/ \E u \in admins : AdminEvent(u)
    \/ \E u \in admins : Media(u, 1)
    \/ \E u \in admins : GetVideo(u)
    \/ BatchSend
    \/ BatchSchedule
    \/ BatchFinish
    \/ \E u \in admins, c \in ChannelIds : RemoveChannelId(u, c)

Spec == Init /\ [][Next]_vars

\* User side: the events of the users that are not operators, the operators'
\* payment decisions about them, and a pool of one batch.
InitUser ==
    /\ session = [u \in UserIds |-> defaultSession]
    /\ users = [u \in UserIds |-> NoUser]
    /\ videos = 1..VIDEO_BATCH_SIZE
    /\ channels = {}
    /\ CHANNEL_IDS = channels
    /\ broadcasts = <<>>
    /\ batch = NoBatch
    /\ hist = [u \in UserIds |-> NoHist]
    /\ bc = NoBroadcast
    /\ msgSeq = 0
    /\ now = 0
    /\ jobs = NoJobs
    /\ obs = ObsOver(videos)
    /\ last = NoEvent

NextUser ==
    \/ \E u \in Actors \ admins : MenuEvent(u)
    \/ \E u \in Actors \ admins : GuardedEvent(u)
    \/ \E u \in Actors \ admins : GetVideo(u)
    \/ BatchSend
    \/ BatchSchedule
    \/ BatchFinish
    \/ \E a \in admins, t \in Actors \ admins, ty \in {"group", "premium"} : Verify(a, t, ty)
    \/ \E a \in admins, t \in Actors \ admins : Reject(a, t)
    \/ \E a \in admins, t \in Actors \ admins : Ban(a, t)

SpecUser == InitUser /\ [][NextUser]_vars

\* Session side: the proof flow of the operator and of a user who is not an
\* operator, that user's attempts at the operator-only events, and the ban.
ProofEvent(u) ==
    \/ Start(u)
    \/ Subscribe(u)
    \/ PurchaseGroupPay(u)
    \/ Photo(u)

NextSession ==
    \/ \E u \in Actors : ProofEvent(u)
    \/ \E u \in Actors \ admins : GuardedEvent(u)
    \/ \E u \in Actors \ admins : AdminBroadcastMedia(u)
    \/ \E a \in admins, t \in Actors \ admins : Ban(a, t)

SpecSession == Init /\ [][NextSession]_vars

\* Content sampler: uploads that grow the pool and batch requests. File ids are
\* interchangeable, so an upload brings a stored id or the smallest unused one.
NextSampler ==
    \/ \E u \in Actors \ admins : Start(u)
    \/ \E u \in admins : AdminUploadMedia(u)
    \/ \E u \in admins, f \in FileIds : f <= Cardinality(videos) + 1 /\ Media(u, f)
    \/ \E u \in Actors \ admins : GetVideo(u)
    \/ BatchSend
    \/ BatchSchedule
    \/ BatchFinish

SpecSampler == Init /\ [][NextSampler]_vars

\* Broadcast engine: any number of stored users and of stored channels (ids are
\* interchangeable as recipients, so the stored ones are the smallest ids).
InitBroadcast ==
    /\ session = [u \in UserIds |-> defaultSession]
    /\ \E n \in 0..MaxUsers :
         users = [u \in UserIds |-> IF u <= n THEN NewUser ELSE NoUser]
    /\ videos = {}
    /\ \E n \in 0..MaxChannels : channels = 1..n
    /\ CHANNEL_IDS = channels
    /\ broadcasts = <<>>
    /\ batch = NoBatch
    /\ hist = [u \in UserIds |-> NoHist]
    /\ bc = NoBroadcast
    /\ msgSeq = 0
    /\ now = 0
    /\ jobs = NoJobs
    /\ obs = NoObs
    /\ last = NoEvent

NextBroadcast ==
    \/ \E u \in admins : AdminBroadcastText(u)
    \/ \E u \in admins : Text(u)
    \/ \E u \in admins : AdminBroadcastMedia(u)
    \/ \E u \in admins : Media(u, 1)
    \/ \E u \in Actors, kind \in {"TEXT", "MEDIA"}, target \in {"users", "channels", "all"} :
         ConfirmBroadcast(u, kind, target)
    \/ BroadcastSend
    \/ BroadcastChannels
    \/ BroadcastStore

SpecBroadcast == InitBroadcast /\ [][NextBroadcast]_vars

\* Scheduled jobs next to the batch requests of a user who is not an operator,
\* over a pool of one batch. The user has a stored record and the transport has
\* room for two more batches; /start is sent again once the record is gone.
InitJobs ==
    /\ session = [u \in UserIds |-> defaultSession]
    /\ users = [u \in UserIds |-> IF u \in Actors \ admins THEN NewUser ELSE NoUser]
    /\ videos = 1..VIDEO_BATCH_SIZE
    /\ channels = {}
    /\ CHANNEL_IDS = channels
    /\ broadcasts = <<>>
    /\ batch = NoBatch
    /\ hist = [u \in UserIds |-> NoHist]
    /\ bc = NoBroadcast
    /\ msgSeq = MaxMsgId - 2 * VIDEO_BATCH_SIZE
    /\ now = 0
    /\ jobs = NoJobs
    /\ obs = ObsOver(videos)
    /\ last = NoEvent

NextJobs ==
    \/ \E u \in Actors \ admins : ~users[u].exists /\ Start(u)
    \/ \E u \in Actors \ admins : GetVideo(u)
    \/ BatchSend
    \/ BatchSchedule
    \/ BatchFinish
    \/ Tick
    \/ \E k \in 1..MaxTime : SweepFind(k)
    \/ \E k \in 1..MaxTime : SweepUser(k)
    \/ \E k \in 1..MaxTime : SweepEnd(k)
    \/ \E k \in 1..MaxTime : CleanInactive(k)
    \/ QuotaReset

SpecJobs == InitJobs /\ [][NextJobs]_vars

\* The same with a scheduler that keeps firing and callbacks whose awaited calls
\* return: the tick, the steps of a sweep run and the quota reset are taken when
\* they stay possible.
FairJobs ==
    /\ WF_vars(Tick)
    /\ WF_vars(QuotaReset)
    /\ \A k \in 1..MaxTime :
          /\ WF_vars(SweepFind(k))
          /\ WF_vars(SweepUser(k))
          /\ WF_vars(SweepEnd(k))
          /\ WF_vars(CleanInactive(k))

\* Sweeps under fairness: the stored user has received nothing yet and the
\* transport has room for one batch, requested at any minute.
InitSweeps ==
    /\ session = [u \in UserIds |-> defaultSession]
    /\ users = [u \in UserIds |-> IF u \in Actors \ admins THEN NewUser ELSE NoUser]
    /\ videos = 1..VIDEO_BATCH_SIZE
    /\ channels = {}
    /\ CHANNEL_IDS = channels
    /\ broadcasts = <<>>
    /\ batch = NoBatch
    /\ hist = [u \in UserIds |-> NoHist]
    /\ bc = NoBroadcast
    /\ msgSeq = MaxMsgId - VIDEO_BATCH_SIZE
    /\ now = 0
    /\ jobs = NoJobs
    /\ obs = ObsOver(videos)
    /\ last = NoEvent

SpecSweepsFair == InitSweeps /\ [][NextJobs]_vars /\ FairJobs

\* Payment decisions: the decision buttons pressed by anyone, about any user id,
\* next to the /start that stores a user.
NextDecision ==
    \/ \E u \in Actors : Start(u)
    \/ \E a \in Actors, t \in UserIds, ty \in {"group", "premium"} : Verify(a, t, ty)
    \/ \E a \in Actors, t \in UserIds : Reject(a, t)
    \/ \E a \in Actors, t \in UserIds : Ban(a, t)

SpecDecision == Init /\ [][NextDecision]_vars

\* Retraction: the records of a broadcast to all that reached every stored user
\* and channel are in storage.
StoredBroadcast(i, chat) ==
    [messageId |-> i, chatId |-> chat, content |-> "text",
     targetType |-> IF chat > 0 THEN "user" ELSE "channel"]

InitRetract ==
    /\ session = [u \in UserIds |-> defaultSession]
    /\ users = [u \in UserIds |-> NewUser]
    /\ videos = {}
    /\ channels = ChannelIds
    /\ CHANNEL_IDS = channels
    /\ broadcasts = [i \in 1..(MaxUsers + MaxChannels) |->
                       StoredBroadcast(i, IF i <= MaxUsers THEN userChat(i)
                                          ELSE channelChat(i - MaxUsers))]
    /\ batch = NoBatch
    /\ hist = [u \in UserIds |-> NoHist]
    /\ bc = NoBroadcast
    /\ msgSeq = MaxUsers + MaxChannels
    /\ now = 0
    /\ jobs = NoJobs
    /\ obs = NoObs
    /\ last = NoEvent

NextRetract ==
    \/ \E u \in admins : AdminCommand(u)
    \/ \E u \in admins : AdminDeleteBroadcast(u)
    \/ \E u \in admins : AdminCancel(u)
    \/ \E u \in Actors, id \in 1..(MaxUsers + MaxChannels) : DeleteBroadcast(u, id)
    \/ \E u \in Actors, c \in ChannelIds : RemoveChannelId(u, c)

SpecRetract == InitRetract /\ [][NextRetract]_vars

\* Channel registry: arming, the messages that reach the channel handler, text
\* messages, and removals.
NextChannels ==
    \/ \E u \in Actors : AdminManageChannels(u)
    \/ \E u \in Actors : AddChannel(u)
    \/ \E u \in Actors : Text(u)
    \/ \E u \in Actors, m \in ReachingInputs : ChannelMessage(u, m)
    \/ \E u \in admins, c \in ChannelIds : RemoveChannelId(u, c)

SpecChannels == Init /\ [][NextChannels]_vars

\* Every operator-only command, button and message, as sent by u.
OperatorOnly(u) ==
    \/ AdminCommand(u)
    \/ AdminBroadcastText(u)
    \/ AdminBroadcastMedia(u)
    \/ Text(u)
    \/ AdminUploadMedia(u)
    \/ Media(u, 1)
    \/ AdminManageChannels(u)
    \/ AddChannel(u)
    \/ Message(u)
    \/ \E m \in ReachingInputs : ChannelMessage(u, m)
    \/ \E c \in ChannelIds : RemoveChannelId(u, c)
    \/ AdminDeleteBroadcast(u)
    \/ \E id \in 1..(MaxUsers + MaxChannels) : DeleteBroadcast(u, id)
    \/ AdminStats(u)
    \/ AdminCancel(u)
    \/ \E kind \in {"TEXT", "MEDIA"}, target \in {"users", "channels", "all"} :
          ConfirmBroadcast(u, kind, target)

\* Access control: a sender who is not an operator tries every operator-only
\* event while an operator drafts a broadcast, over stored users, channels and
\* broadcast records.
NextAccess ==
    \/ \E u \in admins : AdminBroadcastText(u)
    \/ \E u \in admins : Text(u)
    \/ \E u \in admins : AdminBroadcastMedia(u)
    \/ \E u \in admins : Media(u, 1)
    \/ \E u \in Actors \ admins : OperatorOnly(u)
    \/ BroadcastSend
    \/ BroadcastChannels
    \/ BroadcastStore

SpecAccess == InitRetract /\ [][NextAccess]_vars

\* Uploads: operators and others arm the upload or the media broadcast and send
\* media with any fileId, stored or new.
NextUpload ==
    \/ \E u \in Actors : AdminUploadMedia(u)
    \/ \E u \in Actors : AdminBroadcastMedia(u)
    \/ \E u \in Actors, f \in FileIds : Media(u, f)

SpecUpload == Init /\ [][NextUpload]_vars

\* Entitlements: the payment flow and the batch requests of the users that are
\* not operators, and the operators' decisions about them.
NextEntitlement ==
    \/ \E u \in Actors \ admins : Start(u)
    \/ \E u \in Actors \ admins : Subscribe(u)
    \/ \E u \in Actors \ admins : PurchaseGroupPay(u)
    \/ \E u \in Actors \ admins : Photo(u)
    \/ \E u \in Actors \ admins : GetVideo(u)
    \/ BatchSend
    \/ BatchSchedule
    \/ BatchFinish
    \/ \E a \in admins, t \in Actors \ admins, ty \in {"group", "premium"} : Verify(a, t, ty)
    \/ \E a \in admins, t \in Actors \ admins : Reject(a, t)
    \/ \E a \in admins, t \in Actors \ admins : Ban(a, t)

SpecEntitlement == InitUser /\ [][NextEntitlement]_vars

\* ---------------------------------------------------------------- properties
\* The waiting flags a session has armed.
WaitingFlags(s) ==
    (IF s.waitingForBroadcast = "text" THEN {"broadcast_text"} ELSE {})
    \cup (IF s.waitingForBroadcast = "media" THEN {"broadcast_media"} ELSE {})
    \cup (IF s.waitingForUpload THEN {"upload"} ELSE {})
    \cup (IF s.waitingForPaymentProof # "null" THEN {"payment"} ELSE {})
    \cup (IF s.waitingForChannelAdd = "true" THEN {"channel"} ELSE {})

\* C1: in every reachable state every session has at most one waiting flag armed
\* (text broadcast, media broadcast, upload, payment proof, channel add).
C1_AtMostOneWaiting ==
    \A u \in UserIds : Cardinality(WaitingFlags(session[u])) <= 1

\* The events that enter a named menu state, and the flag each state arms itself.
OwnFlag(ev) ==
    CASE ev = "ADMIN_BROADCAST_TEXT" -> {"broadcast_text"}
      [] ev = "ADMIN_BROADCAST_MEDIA" -> {"broadcast_media"}
      [] ev = "ADMIN_UPLOAD_MEDIA" -> {"upload"}
      [] ev = "ADD_CHANNEL" -> {"channel"}
      [] ev \in {"SUBSCRIBE", "PURCHASE_GROUP_PAY"} -> {"payment"}
      [] OTHER -> {}

\* C2: right after an event entered a menu state (the cancel path included), the
\* sender's session holds no draft broadcast payload and no waiting flag other
\* than the one the entered state arms itself.
C2_TransitionClearsAll ==
    "menu" \in last.effects =>
        /\ session[last.user].broadcastData = "null"
        /\ WaitingFlags(session[last.user]) \subseteq OwnFlag(last.ev)

\* C3: an event of a user the operator banned causes the ban notice and nothing
\* else, and no batch request runs for a banned user.
C3_BanNoticeOnly ==
    /\ last.wasBanned => last.effects = {"ban_notice"}
    /\ batch.phase # "idle" => ~batch.wasBanned

\* |pool minus viewedVideos| at the time of the batch request.
UnviewedAtRequest == Cardinality(batch.poolAtRequest \ batch.viewedAtRequest)

C5_RecycleKeepsOnlyNewItems ==
    (batch.phase # "idle" /\ UnviewedAtRequest < VIDEO_BATCH_SIZE) =>
        /\ batch.reset
        /\ batch.available = batch.poolAtRequest
        /\ Range(batch.selected) \subseteq batch.poolAtRequest
        /\ Len(batch.selected) =
               Min(VIDEO_BATCH_SIZE, Cardinality(batch.poolAtRequest))
        /\ Cardinality(Range(batch.selected)) = Len(batch.selected)
        /\ batch.phase \in {"sending", "scheduled", "failed"} =>
               users[batch.user].viewedVideos = {}
        /\ batch.phase = "done" =>
               users[batch.user].viewedVideos = Range(batch.selected)

\* A recycling batch completed and dropped an item that was viewed before.
W_C5 ==
    /\ batch.phase = "done" /\ batch.reset
    /\ Len(batch.selected) = VIDEO_BATCH_SIZE
    /\ batch.viewedAtRequest \ Range(batch.selected) # {}
    /\ batch.viewedAtRequest \cap Range(batch.selected) # {}

\* C6: a batch request over an empty pool does not reset viewedVideos and ends
\* by telling the user that nothing is available.
C6_EmptyPoolSurfaced ==
    (batch.phase # "idle" /\ batch.poolAtRequest = {}) =>
        /\ ~batch.reset
        /\ batch.phase = "done" => batch.notice = "nothing_available"

\* C7: when a broadcast execution reports its counts, success plus failed is the
\* number of recipients of the target (the stored users, the stored channels, or
\* both).
C7_CountsCoverTargets ==
    (bc.phase = "ended" /\ bc.report = "counts") =>
        bc.success + bc.failed = Len(resolvedTargets(bc.target))

\* An execution to all reported counts with successes and failures.
W_C7 ==
    /\ bc.phase = "ended" /\ bc.report = "counts" /\ bc.target = "all"
    /\ bc.success >= 1 /\ bc.failed >= 1

\* The records an ended execution added to the Broadcast collection.
StoredByRun == SubSeq(broadcasts, bc.storedBefore + 1, Len(broadcasts))

\* C8: after an execution ended, the records it stored are one per recipient the
\* transport accepted the send for, and none for any other recipient, so there
\* are success of them.
C8_RecordIffDelivered ==
    bc.phase = "ended" =>
        /\ Len(StoredByRun) = bc.success
        /\ {StoredByRun[i].chatId : i \in 1..Len(StoredByRun)} = bc.delivered
        /\ Cardinality(bc.delivered) = bc.success

\* The middle one of three recipients was unreachable.
W_C8 ==
    /\ bc.phase = "ended" /\ Len(bc.targets) >= 3
    /\ bc.targets[1] \in bc.delivered
    /\ bc.targets[2] \notin bc.delivered
    /\ bc.targets[3] \in bc.delivered
    /\ Len(StoredByRun) = Len(bc.targets) - 1

\* C9: once the fan-out runs, the loop passes go through the recipients of the
\* target in order, one pass each, whatever the earlier passes ended with: while
\* it runs the passes made are a prefix of the recipients, and when it ended
\* every recipient had exactly one.
C9_EveryRecipientAttemptedOnce ==
    /\ bc.phase = "running" =>
         /\ Len(bc.attempted) <= Len(bc.targets)
         /\ bc.attempted = SubSeq(bc.targets, 1, Len(bc.attempted))
         /\ bc.success + bc.failed = Len(bc.attempted)
    /\ (bc.phase = "ended" /\ bc.progressEdit = "ok") =>
         bc.attempted = resolvedTargets(bc.target)

\* The first recipient failed and a later one was delivered to.
W_C9 ==
    /\ bc.phase = "ended" /\ Len(bc.attempted) >= 2
    /\ bc.attempted[1] \notin bc.delivered
    /\ bc.attempted[2] \in bc.delivered

\* C10: whatever transport call failed during an execution, the failed progress
\* edit included, every recipient of the target had its delivery attempt when
\* the execution ended.
C10_NoTransportFailureAborts ==
    bc.phase = "ended" => bc.attempted = resolvedTargets(bc.target)

\* C11: retracting an existing broadcast record asks the transport to delete that
\* message and removes the record from storage whether or not the transport
\* delete succeeded.
C11_RetractRemovesRecord ==
    (last.ev = "DELETE_BROADCAST_id" /\ "delete_requested" \in last.effects)
        => findById(broadcasts, last.subject) = {}

\* Every stored receipt expires after the start of every completed sweep tick.
NoExpiredLeft ==
    \A u \in UserIds : \A e \in users[u].sentMessages : e.deleteAt > obs.doneAt

\* C12: after a sweep tick completes, no user has a sentMessages entry whose
\* deleteAt is at or before the time taken at the tick's start, and every entry
\* with a later deleteAt is still present.
C12_SweepLeavesExactlyLater ==
    /\ NoExpiredLeft
    /\ obs.lostLater = {}

\* C12 amended: after a sweep tick completes no user has an entry whose deleteAt
\* is at or before the tick's start time; a tick pulls no entry whose deleteAt is
\* after its own start time; an entry with a later deleteAt is missing at the
\* tick's completion only when the inactive-user cleanup deleted its user's
\* record or a tick that started later pulled it as expired.
C12_SweepPullsOnlyExpired ==
    /\ NoExpiredLeft
    /\ obs.early = {}
    /\ obs.lostLater \subseteq (obs.dropped \cup obs.pulled)

\* A tick completed after pulling expired receipts, no later tick has fired, and
\* a receipt that expires later is still stored.
W_C12 ==
    /\ Running = {} /\ obs.doneAt = now
    /\ obs.pulled # {}
    /\ \E u \in UserIds : users[u].sentMessages # {}

\* C13: in the sweep every expired entry gets a transport deletion attempt by
\* the tick that removes it, it is removed whatever the attempt's outcome, it
\* never comes back, and an entry whose deletion failed is never attempted again.
C13_AttemptThenForget ==
    /\ obs.unattempted = {}
    /\ \A u \in UserIds : MessageIds(users[u].sentMessages) \cap (obs.failed \cup obs.pulled) = {}
    /\ obs.retried = {}

\* C14: no two runs of the sweep callback are in flight at the same time.
C14_NoConcurrentSweeps ==
    Cardinality(Running) <= 1

\* The receipts of the request in batch are stored, or a tick pulled them after
\* their deleteAt.
ReceiptsKept ==
    \A m \in Range(batch.sent) :
        \/ m \in MessageIds(users[batch.user].sentMessages)
        \/ m \in obs.pulled \ obs.early

\* The viewed-set additions of the completed request in batch are stored and its
\* dailyCount increment was applied to the value stored when it ran.
UpdatesKept ==
    /\ Range(batch.selected) \subseteq users[batch.user].viewedVideos
    /\ batch.countAfter = batch.countBefore + VIDEO_BATCH_SIZE

\* C15: when a sweep tick or the quota reset interleaves with a live batch
\* request of a user, every receipt the request pushed stays in sentMessages
\* until its own deleteAt has expired, the additions to viewedVideos persist and
\* the dailyCount increment is applied to the value stored at that moment.
C15_NoLostUpdate ==
    /\ batch.phase \in {"scheduled", "done"} => ReceiptsKept
    /\ batch.phase = "done" => UpdatesKept

\* C15 amended: the same, for a request during which the inactive-user cleanup
\* of the midnight tick does not delete the user's record (the updates of a
\* request whose user record was deleted are discarded with the record or
\* never stored).
C15_NoLostUpdateWhileStored ==
    ~obs.cut =>
        /\ batch.phase \in {"scheduled", "done"} => ReceiptsKept
        /\ batch.phase = "done" => UpdatesKept

\* A request read dailyCount above 0, the quota reset ran before its increment,
\* and a tick that fired while it was live pulled older receipts of the user
\* after the request had pushed its own.
W_C15 ==
    /\ batch.phase = "done" /\ ~obs.cut
    /\ batch.countAtRequest > 0 /\ batch.countBefore = 0
    /\ obs.pulled # {}
    /\ Range(batch.sent) \subseteq MessageIds(users[batch.user].sentMessages)
    /\ Range(batch.sent) # {}

\* The fields of a user record the quota reset has no business with.
OtherFields(user) ==
    [f \in (DOMAIN user) \ {"dailyCount", "lastReset"} |-> user[f]]

\* C16: the step of the daily quota-reset job leaves dailyCount at 0 for every
\* stored user, whatever it was before, creates no record and changes no field
\* other than dailyCount and lastReset.
C16_QuotaResetZeroesAll ==
    [][obs'.resets # obs.resets =>
          \A u \in UserIds :
              /\ users'[u].exists => users'[u].dailyCount = 0
              /\ OtherFields(users'[u]) = OtherFields(users[u])]_vars

\* The quota reset ran over a user with a count above 0 who had viewed media,
\* and nothing was counted since.
W_C16 ==
    /\ obs.resets > 0 /\ obs.resetFrom # {}
    /\ \A u \in obs.resetFrom :
           /\ users[u].exists /\ users[u].dailyCount = 0
           /\ users[u].viewedVideos # {}
           /\ users[u].lastReset = now

\* C17: between two firings of the quota-reset job the dailyCount stored for a
\* userId never gets smaller.
C17_CountNeverLowered ==
    \A u \in UserIds : users[u].exists => users[u].dailyCount >= obs.peak[u]

\* C18: in every reachable state each user's viewedVideos holds only identifiers
\* of the media pool, each once, and so never more elements than the pool: a
\* request that finds fewer than a batch of unviewed items empties it first.
C18_ViewedWithinPool ==
    \A u \in UserIds :
        /\ users[u].viewedVideos \subseteq videos
        /\ Cardinality(users[u].viewedVideos) <= Cardinality(videos)

\* A second batch without recycle completed and the user's viewedVideos now
\* holds every item of a pool of more than one batch.
W_C18 ==
    /\ batch.phase = "done" /\ ~batch.reset
    /\ batch.viewedAtRequest # {}
    /\ users[batch.user].viewedVideos = videos
    /\ Cardinality(videos) > VIDEO_BATCH_SIZE

DecisionEvents == {"VERIFY", "REJECT", "BAN"}

\* C19: a VERIFY, REJECT or BAN action fired by an identity that is not an
\* operator changes no stored user record, and its only effect is the
\* "admin only" answer: no notification of the subject, no edit of the
\* operator-facing message.
C19_NonOperatorDecisionIsInert ==
    [][(last'.ev \in DecisionEvents /\ last'.user \notin admins) =>
          /\ users' = users
          /\ last'.effects = {"admin_only"}]_vars

\* A user who is not an operator pressed BAN for a stored, unbanned user.
W_C19 ==
    /\ last.ev = "BAN" /\ last.user \notin admins
    /\ users[last.subject].exists /\ ~users[last.subject].isBanned
    /\ last.effects = {"admin_only"}

\* C20: a decision of an operator about a user id without a stored record
\* answers "not found" and does nothing else: no record changes, none is
\* created, the subject is not notified; so the next one finds the same state.
C20_MissingSubjectNotFound ==
    [][(/\ last'.ev \in DecisionEvents
        /\ last'.user \in admins
        /\ ~users[last'.subject].exists) =>
          /\ users' = users
          /\ last'.effects = {"not_found"}]_vars

\* An operator rejected the payment proof of a user id that has no record,
\* while another user is stored.
W_C20 ==
    /\ last.ev = "REJECT" /\ last.user \in admins
    /\ ~users[last.subject].exists
    /\ \E u \in UserIds : users[u].exists
    /\ last.effects = {"not_found"}


\* C21: right after an operator's BAN wrote the record of an existing user, that
\* record has isBanned = true, isPremium = false and hasPurchaseGroupAccess =
\* false, and the ban pre-check finds the user banned.
C21_BanStored ==
    (last.ev = "BAN" /\ "db_write" \in last.effects) =>
        /\ users[last.subject].isBanned
        /\ ~users[last.subject].isPremium
        /\ ~users[last.subject].hasPurchaseGroupAccess
        /\ IsBannedUser(last.subject)


\* The fields of a user record a VERIFY of type ty must not touch.
VerifyFrame(ty) ==
    {"dailyCount", "viewedVideos", "sentMessages", "lastReset",
     IF ty = "group" THEN "isPremium" ELSE "hasPurchaseGroupAccess"}

\* C22: an operator's VERIFY that wrote the record of an existing user sets the
\* entitlement its type names (hasPurchaseGroupAccess for group, isPremium for
\* premium) to true, leaves the record without a ban, and leaves the other
\* entitlement, dailyCount, viewedVideos and sentMessages as they were.
C22_VerifySetsNamedEntitlement ==
    [][(last'.ev = "VERIFY" /\ "db_write" \in last'.effects) =>
          LET t == last'.subject
              ty == last'.verifyType
          IN /\ users'[t].exists
             /\ IF ty = "group" THEN users'[t].hasPurchaseGroupAccess
                                ELSE users'[t].isPremium
             /\ ~users'[t].isBanned
             /\ \A f \in VerifyFrame(ty) : users'[t][f] = users[t][f]
             /\ \A u \in UserIds \ {t} : users'[u] = users[u]]_vars

W_C22 ==
    /\ last.ev = "VERIFY" /\ "db_write" \in last.effects
    /\ last.verifyType = "premium"
    /\ users[last.subject].isPremium
    /\ ~users[last.subject].hasPurchaseGroupAccess
    /\ users[last.subject].dailyCount > 0
    /\ users[last.subject].viewedVideos # {}
    /\ users[last.subject].sentMessages # {}

\* C23: a user's isPremium (hasPurchaseGroupAccess) is true only if an operator's
\* VERIFY of type premium (group) wrote that user's record and no BAN wrote it
\* since; in particular no event of the user sets it.
C23_EntitlementOnlyByVerify ==
    \A u \in UserIds :
        /\ users[u].isPremium => "premium" \in obs.granted[u]
        /\ users[u].hasPurchaseGroupAccess => "group" \in obs.granted[u]

W_C23 ==
    /\ last.ev \notin DecisionEvents
    /\ last.user \in UserIds \ admins
    /\ users[last.user].isPremium
    /\ ~users[last.user].hasPurchaseGroupAccess

\* C24: in a VERIFY, REJECT or BAN whose edit of the operator-facing message
\* failed, the fallback status message is sent or its failure swallowed, and the
\* handler goes on to notify the subject.
C24_EditFailureStillNotifies ==
    (last.ev \in DecisionEvents /\ "edit_failed" \in last.effects) =>
        /\ {"fallback", "fallback_failed"} \cap last.effects # {}
        /\ "notify_attempted" \in last.effects


\* C25: a pass of the cleanup deletes a user record only if its probe was rejected
\* as permanently unreachable (blocked, deleted, chat not found); a pass whose
\* probe was delivered, asked to retry later or failed on the network deletes none.
C25_RemovesOnlyUnreachable ==
    [][\A k \in 1..MaxTime, probe \in ProbeOutcomes :
          (jobs.sweeps[k].phase = "cleaning" /\ probeUser(k, probe)) =>
              /\ probe \notin PermanentSignals => users' = users
              /\ \A u \in UserIds : users'[u] # users[u] => u = Head(jobs.sweeps[k].probes)]_vars

\* The cleanup removed a user who had receipts, and the user came back.
W_C25 ==
    /\ obs.dropped # {}
    /\ \E u \in Actors \ admins : users[u].exists /\ users[u].sentMessages = {}
    /\ \A k \in 1..MaxTime : jobs.sweeps[k].phase = "idle"

\* The effects of a handler that called the transport's deleteMessage.
TransportDelete == {"delete_requested", "transport_deleted", "transport_failed"}

\* C27: an operator's REMOVE_CHANNEL_<id> for a channel that is not stored, or
\* DELETE_BROADCAST_<id> for a broadcast record that is not stored, is answered
\* with the not-found notice, calls no transport delete, and leaves the
\* collections and the in-memory channel list as they were.
C27_MissingRecordNoMutation ==
    [][\A u \in admins :
          /\ \A c \in ChannelIds :
                (c \notin channels /\ RemoveChannelId(u, c)) =>
                    /\ "not_found" \in last'.effects
                    /\ last'.effects \cap TransportDelete = {}
                    /\ UNCHANGED <<dbVars, CHANNEL_IDS>>
          /\ \A id \in 1..(MaxUsers + MaxChannels) :
                ((\A i \in 1..Len(broadcasts) : broadcasts[i].messageId # id)
                    /\ DeleteBroadcast(u, id)) =>
                    /\ "not_found" \in last'.effects
                    /\ last'.effects \cap TransportDelete = {}
                    /\ UNCHANGED <<dbVars, CHANNEL_IDS>>]_vars

\* A broadcast record and the channel were removed, and the last event asked
\* again for a record that is gone.
W_C27 ==
    /\ last.ev \in {"REMOVE_CHANNEL_id", "DELETE_BROADCAST_id"}
    /\ "not_found" \in last.effects
    /\ last.user \in admins
    /\ channels = {} /\ CHANNEL_IDS = {}
    /\ Len(broadcasts) = MaxUsers + MaxChannels - 1


\* The inputs C28 names, among those the channel handler takes a channel from: the
\* bot is not administrator or creator there, or the channel is registered.
InvalidChannelInput(m) ==
    \/ (~m.forward /\ m.text = "malformed")
    \/ (~m.forward /\ m.text = "wellformed" /\ m.chat # "channel")
    \/ m.member \notin {"administrator", "creator"}
    \/ m.channel \in channels

\* C28: while a channel is awaited from an operator, a message that names no
\* valid new channel (a text, which the text handler takes, whatever its format
\* and whatever it resolves to; a channel where the bot is neither administrator
\* nor creator; a registered channel) creates no Channel record and leaves the
\* in-memory channel list unchanged.
C28_InvalidChannelInputNoRecord ==
    [][\A u \in Actors :
          session[u].waitingForChannelAdd = "true" =>
              /\ Text(u) => UNCHANGED <<channels, CHANNEL_IDS>>
              /\ \A m \in ChannelInputs :
                    (InvalidChannelInput(m) /\ ChannelMessage(u, m)) =>
                        UNCHANGED <<channels, CHANNEL_IDS>>]_vars

\* A registered channel was named again while a channel was awaited.
W_C28 ==
    /\ last.ev = "message" /\ last.effects = {"exists"}
    /\ last.subject \in channels /\ last.subject \in CHANNEL_IDS


\* C29: an upload of a fileId the pool already holds gets the duplicate notice and
\* creates no document, and no fileId ever has more than one document in the pool.
C29_NoDuplicateMedia ==
    [][/\ \A f \in FileIds : obs'.copies[f] <= 1
       /\ \A u \in admins, f \in FileIds :
             (last'.ev = "media" /\ f \in videos /\ session[u].waitingForUpload
                 /\ Media(u, f)) =>
                 /\ videos' = videos
                 /\ obs'.copies = obs.copies
                 /\ last'.effects = {"duplicate"}]_vars

W_C29 ==
    /\ last.ev = "media" /\ last.effects = {"duplicate"}
    /\ Cardinality(videos) >= 2
    /\ \A f \in videos : obs.copies[f] = 1


\* C30: while an execution is in its recipient loops no record of it is stored and
\* no insert was made; an ended execution made at most one insert, after every
\* recipient was attempted, and none when no delivery succeeded.
C30_BulkInsertAfterLoops ==
    /\ bc.phase = "running" =>
          /\ bc.inserts = 0
          /\ Len(broadcasts) = bc.storedBefore
    /\ bc.phase = "ended" =>
          /\ bc.inserts <= 1
          /\ bc.inserts = 1 => Len(bc.attempted) = Len(resolvedTargets(bc.target))
          /\ bc.success = 0 =>
                /\ bc.inserts = 0
                /\ Len(broadcasts) = bc.storedBefore

\* An execution that ended with deliveries and a failure stored its records at
\* the end.
W_C30 ==
    /\ bc.phase = "ended" /\ bc.inserts = 1
    /\ bc.success >= 2 /\ bc.failed >= 1
    /\ Len(broadcasts) = bc.storedBefore + bc.success


\* What a session holds, each waiting flag taken as armed or not.
SessionFlags(s) == <<s.currentMenu, s.broadcastData, WaitingFlags(s)>>

\* C26: an operator-only command, button or message sent by a user who is not an
\* operator changes no session's menu, draft or waiting flag, no stored record
\* and not the in-memory channel list; and an execution of the broadcast engine
\* such a user started delivers to no recipient and stores no record.
C26_NonOperatorIsInert ==
    [][/\ \A u \in Actors \ admins :
             (last'.user = u /\ OperatorOnly(u)) =>
                 /\ \A v \in UserIds :
                       SessionFlags(session'[v]) = SessionFlags(session[v])
                 /\ UNCHANGED <<dbVars, CHANNEL_IDS>>
       /\ bc'.by \in Actors \ admins =>
             /\ bc'.delivered = {}
             /\ bc'.success = 0
             /\ bc'.messages = <<>>
             /\ Len(broadcasts') = bc'.storedBefore]_vars

\* A user who is not an operator confirmed a broadcast to all while an operator's
\* session held a draft: every recipient was attempted and none was reached.
W_C26 ==
    /\ bc.by \in Actors \ admins
    /\ bc.phase = "ended" /\ bc.target = "all"
    /\ bc.failed = Len(resolvedTargets("all")) /\ bc.failed > 0
    /\ \E a \in admins : session[a].broadcastData # "null"

\* The items the request in batch delivered so far, in the order of delivery.
Delivered == SubSeq(batch.selected, 1, Len(batch.sent))

SmallPool == Cardinality(batch.poolAtRequest) < VIDEO_BATCH_SIZE

C32_UploadDispatched ==
    [][\A u \in admins :
          session[u].waitingForUpload =>
              /\ Photo(u) => ~session'[u].waitingForUpload
              /\ \A f \in FileIds :
                    Media(u, f) => (f \in videos' /\ ~session'[u].waitingForUpload)]_vars

\* C33: when an operator's session awaits a channel and the operator sends a text
\* message (it carries the well-formed id of a channel that is not registered and
\* in which the bot is administrator), afterwards a Channel record of a channel
\* that was not registered exists, its id is in the in-memory list, and the
\* channel-add flag is cleared.
C33_TypedIdRegisters ==
    [][\A u \in admins :
          (/\ session[u].waitingForChannelAdd = "true"
           /\ ChannelIds \ channels # {}
           /\ Text(u)) =>
              /\ \E c \in ChannelIds \ channels : c \in channels' /\ c \in CHANNEL_IDS'
              /\ session'[u].waitingForChannelAdd # "true"]_vars

\* The highest dailyCount a batch can leave to a user who is not premium.
CountBound == DAILY_VIDEO_LIMIT + VIDEO_BATCH_SIZE - 1

\* C34 as stated: in every reachable state the dailyCount of a user whose
\* isPremium is false is at most dailyLimit + batchSize - 1.
C34_NonPremiumCountBounded ==
    \A u \in UserIds :
        (users[u].exists /\ ~users[u].isPremium) => users[u].dailyCount <= CountBound

\* C34 amended: a batch request of a user who is not premium starts a batch only
\* if the stored dailyCount is below the daily limit, and no step raises the
\* dailyCount of a user whose isPremium is false above dailyLimit + batchSize - 1:
\* such a user has a higher dailyCount only if it was that high before the step,
\* and was premium before the step only if the step is a BAN.
C34_NoBatchBeyondLimit ==
    [][/\ (last'.ev = "GET_VIDEO" /\ "batch" \in last'.effects /\ batch' # batch) =>
             \/ users[last'.user].isPremium
             \/ users[last'.user].dailyCount < DAILY_VIDEO_LIMIT
       /\ \A u \in UserIds :
             (/\ users'[u].exists
              /\ ~users'[u].isPremium
              /\ users'[u].dailyCount > CountBound) =>
                 /\ users[u].dailyCount = users'[u].dailyCount
                 /\ users[u].isPremium => last'.ev = "BAN"]_vars

\* A user who is not premium and never was granted anything used up the daily
\* limit, asked for another batch and got the limit notice.
W_C34 ==
    /\ last.ev = "GET_VIDEO" /\ last.effects = {"limit_notice"}
    /\ last.user \in UserIds
    /\ ~users[last.user].isPremium
    /\ obs.granted[last.user] = {} /\ last.user \notin obs.banned
    /\ users[last.user].dailyCount = DAILY_VIDEO_LIMIT

\* C35: once a batch request has finished, whether it completed or a send of it
\* was rejected, every message it delivered has a receipt in the user's
\* sentMessages, or had one that a sweep pulled.
C35_DeliveredHaveReceipts ==
    batch.phase \in {"done", "failed"} =>
        \A m \in Range(batch.sent) :
            \/ m \in MessageIds(users[batch.user].sentMessages)
            \/ m \in obs.pulled

\* C36 as stated: after a batch request failed during delivery, the user's stored
\* viewedVideos and dailyCount are what they were when the request arrived.
C36_FailedRequestChangesNothing ==
    batch.phase = "failed" =>
        /\ users[batch.user].dailyCount = batch.countAtRequest
        /\ users[batch.user].viewedVideos = batch.viewedAtRequest

\* C36 amended: after a batch request failed during delivery, the user's stored
\* dailyCount is what it was when the request arrived and viewedVideos holds no
\* item of the request; viewedVideos is what it was when the request arrived
\* unless fewer than a batch of unviewed items were left then, in which case the
\* request emptied it before the first send and it is empty.
C36_FailedRequestKeepsCount ==
    batch.phase = "failed" =>
        /\ users[batch.user].dailyCount = batch.countAtRequest
        /\ batch.reset <=> UnviewedAtRequest < VIDEO_BATCH_SIZE
        /\ users[batch.user].viewedVideos =
               IF batch.reset THEN {} ELSE batch.viewedAtRequest

\* A second batch without recycle delivered its first item and failed on the
\* next one.
W_C36 ==
    /\ batch.phase = "failed" /\ ~batch.reset
    /\ batch.sent # <<>>
    /\ batch.viewedAtRequest # {}
    /\ batch.countAtRequest > 0

\* The stored receipts that expire at t or before.
ExpiredBy(t) ==
    UNION {{e \in users[u].sentMessages : e.deleteAt <= t} : u \in UserIds}

\* C37: under fair firing of the minute tick, every sentMessages entry with
\* deleteAt = t is stored only as long as no sweep that started at or after t
\* has completed, and it is eventually removed, by a sweep or with its user's
\* record, while a sweep that started at or after t completes.
C37_ReceiptsEventuallyRemoved ==
    /\ [](\A t \in 1..MaxTime : ExpiredBy(t) # {} => obs.doneAt < t)
    /\ \A t \in 1..MaxTime :
          (ExpiredBy(t) # {}) ~> (ExpiredBy(t) = {} /\ obs.doneAt >= t)

\* Every tick fired and every sweep completed: receipts were pulled, no user
\* record was removed, and no receipt that expired by then is stored.
W_C37 ==
    /\ now = MaxTime /\ Running = {} /\ obs.doneAt = MaxTime
    /\ obs.pulled # {} /\ obs.dropped = {}
    /\ ExpiredBy(MaxTime) = {}

\* C38: a VERIFY or BAN that was answered with the failure notice left the
\* subject's stored isPremium, hasPurchaseGroupAccess and isBanned as they were
\* before the action.
C38_FailureNoticeMeansNoChange ==
    [][(last'.ev \in {"VERIFY", "BAN"} /\ "answered_failed" \in last'.effects) =>
          LET t == last'.subject IN
          /\ users'[t].isPremium = users[t].isPremium
          /\ users'[t].hasPurchaseGroupAccess = users[t].hasPurchaseGroupAccess
          /\ users'[t].isBanned = users[t].isBanned]_vars

\* The awaiting-proof flag of u is armed before the step and cleared after it.
ProofFlagCleared(u) ==
    /\ session[u].waitingForPaymentProof # "null"
    /\ session'[u].waitingForPaymentProof = "null"

\* C39 as stated: whatever step clears the awaiting-proof flag of a user, it is
\* the handling of a photo of that user that was forwarded to the operator
\* channel.
C39_ClearedOnlyAfterForward ==
    [][\A u \in Actors :
          ProofFlagCleared(u) =>
              /\ last'.ev = "photo" /\ last'.user = u
              /\ "proof_forwarded" \in last'.effects]_vars

\* C39 amended: the photo handler clears the awaiting-proof flag of a user only
\* after the photo was forwarded to the operator channel (and the confirmation
\* reply was accepted); any other step that clears it is a menu transition or a
\* cancel of that user. When the forwarding fails, and when no proof is awaited,
\* the photo leaves the flag as it is, type included; and a photo is forwarded
\* only for a user who is not an operator and whose flag is armed.
C39_PhotoClearsOnlyAfterForward ==
    [][\A u \in Actors :
          /\ ProofFlagCleared(u) =>
                /\ last'.user = u
                /\ \/ last'.ev = "photo" /\ "proof_forwarded" \in last'.effects
                   \/ last'.ev # "photo" /\ {"menu", "cancelled"} \cap last'.effects # {}
          /\ (last'.ev = "photo" /\ Photo(u)) =>
                /\ "proof_forwarded" \notin last'.effects =>
                       session'[u].waitingForPaymentProof =
                           session[u].waitingForPaymentProof
                /\ "proof_forwarded" \in last'.effects =>
                       /\ session[u].waitingForPaymentProof # "null"
                       /\ ~isAdmin(u)
                /\ session'[u].waitingForPaymentProof \in
                       {"null", session[u].waitingForPaymentProof}]_vars

\* The forwarding of a proof for the purchase group failed: the session still
\* awaits a proof of that type.
W_C39 ==
    /\ last.ev = "photo" /\ last.effects = {"reply"}
    /\ last.user \in Actors \ admins
    /\ session[last.user].waitingForPaymentProof = "group"

\* C40: the session of a user who is not an operator never holds an operator
\* flag: waitingForBroadcast is null, waitingForUpload is false,
\* waitingForChannelAdd is not armed and broadcastData is null, whatever
\* operator-only event that user sends. A payment proof is consumed, that is
\* forwarded under the armed flag, only by a photo that a user who is not an
\* operator sends in a private chat while the flag is armed: a photo of an
\* operator or in another chat changes no session and forwards nothing.
OperatorFlagsIdle(u) ==
    /\ session[u].waitingForBroadcast = "null"
    /\ ~session[u].waitingForUpload
    /\ session[u].waitingForChannelAdd # "true"
    /\ session[u].broadcastData = "null"

C40_NonOperatorSessionBare ==
    /\ [](\A u \in UserIds \ admins : OperatorFlagsIdle(u))
    /\ []("proof_forwarded" \in last.effects =>
              last.ev = "photo" /\ last.user \in Actors \ admins)
    /\ [][\A u \in Actors, c \in ChatTypes :
              (last'.ev = "photo" /\ last'.user = u /\ PhotoIn(u, c)) =>
                  /\ (c # "private" \/ isAdmin(u)) =>
                         /\ session' = session
                         /\ "proof_forwarded" \notin last'.effects
                  /\ "proof_forwarded" \in last'.effects =>
                         /\ c = "private" /\ ~isAdmin(u)
                         /\ session[u].waitingForPaymentProof # "null"]_vars

\* A user who is not an operator and not banned has armed the proof flag and then
\* sent ADD_CHANNEL: the operator flags are idle and the proof flag is still armed.
W_C40 ==
    /\ last.ev = "ADD_CHANNEL" /\ last.user \in Actors \ admins
    /\ last.effects = {}
    /\ session[last.user].waitingForPaymentProof = "premium"
    /\ OperatorFlagsIdle(last.user)

====
